---- MODULE Spec2Model ----
(***************************************************************************)
(* steelwool: conversation history (ContextBuilder), pending provider      *)
(* reply (UnresolvedResponse) and the resolution strategies over it.       *)
(*                                                                         *)
(* Text (str) is a sequence of characters.  An Optional value is None or   *)
(* Some(x).  A coroutine is a process p with a position pc; it is          *)
(* suspended only at its awaits (adapter, tool resolver, stream, callback).*)
(***************************************************************************)
EXTENDS Integers, Sequences, FiniteSets, TLC

\* ------------------------------------------------------------------ bounds
MaxHist   == 1   \* a new top-level operation starts only on a history this short
MaxDepth  == 2   \* largest tool_reprompt_death an application passes
MaxCalls  == 2   \* most tool calls in one provider reply
MaxDeltas == 2   \* most fragments in one stream

\* ------------------------------------------------------- Optional and text
None      == <<>>
Some(x)   == <<x>>
Val(o)    == o[1]

NL        == "\n"
EmptyStr  == <<>>

\* Python truthiness of an Optional[str]: None and "" are falsy
truthy_str(o) == o # None /\ Val(o) # EmptyStr

\* Python truthiness of an Optional[list]: None and [] are falsy
truthy_list(o) == o # None /\ Val(o) # <<>>

\* ------------------------------------------------------------------- enums
MessageRole == {"user", "model", "function", "system", "tool"}
ContentType == {"text"}
StopReason  == {"stop", "length", "content_filter", "tool_calls", "null"}
NoStop      == "None"    \* an absent Optional[StopReason]

\* ------------------------------------------------------------------- types
Message(role, content) ==
    [role |-> role, content |-> content, content_type |-> "text"]

\* tool_calls is annotated Optional[ToolCall] and used as an optional list:
\* tested with "not", iterated with "for", assigned a list by the aggregator
PromptResponse(message, stop_reason, token_usage, tool_calls) ==
    [message |-> message, stop_reason |-> stop_reason,
     token_usage |-> token_usage, tool_calls |-> tool_calls]

PromptResponseDelta(content, stop_reason, tool_call) ==
    [content |-> content, stop_reason |-> stop_reason, tool_call |-> tool_call]

\* ------------------------------------------------ what the collaborators say
\* tool calls are named 1, 2, ...; a reply asks for calls 1..k in that order
ToolCallLists == {[i \in 1..k |-> i] : k \in 0..MaxCalls}

UserMessages     == {Message("user", <<"u">>)}
ProviderMessages == {Message("model", <<"a">>)}

\* token_usage is an int; providers report 0 (as the streaming aggregate does) or more
TokenUsages == {0, 1}

\* every reply a provider adapter can return
AdapterReplies ==
    {PromptResponse(m, s, u, tc) :
        m \in ProviderMessages, s \in StopReason, u \in TokenUsages,
        tc \in {None} \cup {Some(l) : l \in ToolCallLists}}

\* what the application passes to send: a system message and optional tools
SystemMessages == {<<"s">>, <<"z">>}
ToolCatalogs   == {None, Some(<<"t">>)}

\* every value a tool resolver can return: None, "" or a text
ResolverResults == {None, Some(EmptyStr), Some(<<"r">>)}

\* every fragment a streaming adapter can yield
StreamDeltas ==
    {PromptResponseDelta(c, s, tc) :
        c \in {EmptyStr, <<"a">>, <<"b">>},
        s \in {NoStop} \cup StopReason,
        tc \in {None, Some(1), Some(2)}}

\* what the application passes to resolve_tool_calls_recursively
StartDepths  == (-1)..MaxDepth
StartBudgets == {-1, 0, 1, 2}

\* ------------------------------------------------------------ ContextBuilder
add_message_twice(history_, message) ==
    Append(Append(history_, message), message)

add_message_front(history_, message) == <<message>> \o history_

add_message(history_, message) == Append(history_, message)

\* ------------------------------------- UnresolvedResponse, the pure decisions
base_case_off_by_one(tool_reprompt_death, max_tokens) ==
    tool_reprompt_death <= 1 \/ max_tokens <= 0

base_case_strict_tokens(tool_reprompt_death, max_tokens) ==
    tool_reprompt_death = 0 \/ max_tokens < 0

base_case(tool_reprompt_death, max_tokens) ==
    tool_reprompt_death = 0 \/ max_tokens <= 0

is_terminal_stop_no_length(stop_reason) ==
    stop_reason \in {"stop", "content_filter"}

is_terminal_stop(stop_reason) ==
    stop_reason \in {"stop", "length", "content_filter"}

\* resolve_tool_calls: "if result: tool_response += result + '\n'"
accumulate(tool_response, result) ==
    IF truthy_str(result) THEN tool_response \o Val(result) \o <<NL>>
    ELSE tool_response

\* resolve_tool_calls_recursively: "if result is not None: ..."
accumulate_rec(tool_response, result) ==
    IF result # None THEN tool_response \o Val(result) \o <<NL>>
    ELSE tool_response

ToolMessage(tool_response) == Message("tool", tool_response)

append_batch_no_tool(history_, message, tool_response) ==
    add_message(history_, message)

append_batch_swapped(history_, message, tool_response) ==
    add_message(add_message(history_, ToolMessage(tool_response)), message)

append_batch_tool_only(history_, message, tool_response) ==
    add_message(history_, ToolMessage(tool_response))

\* the two chained add_message calls made before the re-prompt
append_batch(history_, message, tool_response) ==
    add_message(add_message(history_, message), ToolMessage(tool_response))

next_depth_same(tool_reprompt_death) == tool_reprompt_death

next_depth(tool_reprompt_death) == tool_reprompt_death - 1

next_max_tokens_kept(max_tokens, token_usage) == max_tokens

next_max_tokens(max_tokens, token_usage) == max_tokens - token_usage

\* ------------------------------------------- streaming aggregation, per delta
fold_content_reversed(response_content, delta) ==
    delta.content \o response_content

fold_content(response_content, delta) == response_content \o delta.content

fold_tool_calls(response_tool_calls, delta) ==
    IF delta.tool_call # None
    THEN Append(response_tool_calls, Val(delta.tool_call))
    ELSE response_tool_calls

fold_stop_reason_first(response_stop_reason, delta) ==
    IF response_stop_reason = "null" /\ delta.stop_reason # NoStop
    THEN delta.stop_reason
    ELSE response_stop_reason

\* "if delta.stop_reason:" every StopReason member is truthy, NULL included
fold_stop_reason(response_stop_reason, delta) ==
    IF delta.stop_reason # NoStop THEN delta.stop_reason
    ELSE response_stop_reason

\* the fields of a new UnresolvedResponse besides context_builder, which is
\* the builder itself and so the shared history
UnresolvedResponse_default_tools(prompt_response, tools, system_message) ==
    [prompt_response |-> prompt_response, tools |-> None,
     system_message |-> system_message]

UnresolvedResponse(prompt_response, tools, system_message) ==
    [prompt_response |-> prompt_response, tools |-> tools,
     system_message |-> system_message]

\* ===================================================================== state
Procs == {"A", "B"}      \* coroutines of the application
Main  == "A"             \* the one that runs when resolutions do not overlap

VARIABLES
    history,             \* ContextBuilder.history, shared by reference
    proc,                \* per coroutine: position, UnresolvedResponse, locals
    appended             \* every message passed to add_message, in call order

vars == <<history, proc, appended>>

NoReply == PromptResponse(Message("model", EmptyStr), "null", 0, None)
NoDelta == PromptResponseDelta(EmptyStr, NoStop, None)

IdleProc ==
    [pc                   |-> "idle",
     op                   |-> "none",      \* the operation running or last run
     error                |-> "none",      \* the exception raised, if any
     prompt_response      |-> NoReply,     \* UnresolvedResponse.prompt_response
     tools                |-> None,        \* UnresolvedResponse.tools
     system_message       |-> EmptyStr,    \* UnresolvedResponse.system_message
     send_system_message  |-> EmptyStr,    \* send's arguments, handed on to
     send_tools           |-> None,        \* the adapter as they are
     tool_reprompt_death  |-> 0,           \* argument of the current recursive step
     max_tokens           |-> 0,           \* argument of the current recursive step
     tool_response        |-> EmptyStr,    \* local accumulator
     i                    |-> 0,           \* position of the for loop over tool_calls
     response_content     |-> EmptyStr,    \* streaming locals
     response_stop_reason |-> "null",
     response_tool_calls  |-> <<>>,
     delta                |-> NoDelta,
     \* observations of the run, for the properties
     depth0               |-> 0,           \* tool_reprompt_death of the outermost call
     caller_tokens        |-> 0,           \* max_tokens of the calling step
     caller_usage         |-> 0,           \* token_usage of the calling step's reply
     adapter_calls        |-> 0,           \* provider adapter calls of this run
     adapter_calls0       |-> 0,           \* adapter_calls when the current step began
     resolver_calls       |-> <<>>,        \* tool calls handed to the resolver, this step
     resolver_results     |-> <<>>,        \* what the resolver returned for them
     h0                   |-> <<>>,        \* history when the current step began
     adapter_saw          |-> <<>>,        \* history the adapter was last called with
     stream               |-> <<>>,        \* deltas the stream yielded
     callbacks            |-> <<>>]        \* deltas the callback was invoked with

Init ==
    /\ history = <<>>
    /\ proc = [p \in Procs |-> IdleProc]
    /\ appended = <<>>

\* the coroutine p with some of its fields changed
Me(p) == proc[p]
Set(p, r) == proc' = [proc EXCEPT ![p] = r]

\* ================================================ ContextBuilder operations
\* add_message called by the application
AddMessage(p, message) ==
    /\ Me(p).pc = "idle"
    /\ Len(history) < MaxHist
    /\ history' = add_message(history, message)
    /\ appended' = Append(appended, message)
    /\ Set(p, [Me(p) EXCEPT !.pc = "returned", !.op = "add_message",
                            !.h0 = history])

\* send: the adapter is called with the builder, and awaited
Send(p, system_message, tools) ==
    /\ Me(p).pc = "idle"
    /\ Len(history) <= MaxHist
    /\ Set(p, [Me(p) EXCEPT !.pc = "send_await_adapter", !.op = "send",
                            !.error = "none",
                            !.send_system_message = system_message,
                            !.send_tools = tools,
                            !.adapter_calls = 1,
                            !.h0 = history, !.adapter_saw = history])
    /\ UNCHANGED <<history, appended>>

\* send: the adapter returned; the reply is wrapped into an UnresolvedResponse
SendReturn(p, response) ==
    LET ur == UnresolvedResponse(response, Me(p).send_tools,
                                 Me(p).send_system_message)
    IN  /\ Me(p).pc = "send_await_adapter"
        /\ Set(p, [Me(p) EXCEPT !.pc = "pending",
                      !.prompt_response = ur.prompt_response,
                      !.tools = ur.tools,
                      !.system_message = ur.system_message])
        /\ UNCHANGED <<history, appended>>

\* send: the adapter raised
SendRaise(p) ==
    /\ Me(p).pc = "send_await_adapter"
    /\ Set(p, [Me(p) EXCEPT !.pc = "raised", !.error = "adapter"])
    /\ UNCHANGED <<history, appended>>

\* an operation returned (a builder or, from resolve_tool_calls, the
\* UnresolvedResponse itself, which holds the builder): its frame is gone and
\* the application goes on with the builder
Continue(p) ==
    /\ Me(p).pc = "returned"
    /\ Set(p, IdleProc)
    /\ UNCHANGED <<history, appended>>

\* ============================================ UnresolvedResponse operations
ResolveWithout(p) ==
    /\ Me(p).pc = "pending"
    /\ history' = add_message(history, Me(p).prompt_response.message)
    /\ appended' = Append(appended, Me(p).prompt_response.message)
    /\ Set(p, [Me(p) EXCEPT !.pc = "returned", !.op = "resolve_without",
                            !.h0 = history])

\* ------------------------------------------------------- resolve_tool_calls
enters_loop_on_tool_calls(stop_reason) == stop_reason = "tool_calls"

\* does resolve_tool_calls enter its for loop?
enters_loop(stop_reason) == stop_reason # "tool_calls"

\* up to the first await, or to the end when the loop has nothing to await
ResolveToolCalls(p) ==
    LET pr == Me(p).prompt_response
        h1 == add_message(history, pr.message)
        start == [Me(p) EXCEPT !.op = "resolve_tool_calls", !.error = "none",
                               !.h0 = history, !.tool_response = EmptyStr,
                               !.i = 0, !.resolver_calls = <<>>,
                               !.resolver_results = <<>>]
    IN  /\ Me(p).pc = "pending"
        /\ IF enters_loop(pr.stop_reason) /\ pr.tool_calls = None
           THEN \* "for tc in None": TypeError, after the first add_message
                /\ history' = h1
                /\ appended' = Append(appended, pr.message)
                /\ Set(p, [start EXCEPT !.pc = "raised", !.error = "type_error"])
           ELSE IF enters_loop(pr.stop_reason) /\ Val(pr.tool_calls) # <<>>
           THEN /\ history' = h1
                /\ appended' = Append(appended, pr.message)
                /\ Set(p, [start EXCEPT !.pc = "rtc_await_resolver", !.i = 1,
                              !.resolver_calls = <<Val(pr.tool_calls)[1]>>])
           ELSE /\ history' = add_message(h1, ToolMessage(EmptyStr))
                /\ appended' = appended \o <<pr.message, ToolMessage(EmptyStr)>>
                /\ Set(p, [start EXCEPT !.pc = "returned"])

\* the resolver returned for call i: accumulate, then the next call or the end
RtcResolverReturn(p, result) ==
    LET pr == Me(p).prompt_response
        calls == Val(pr.tool_calls)
        tr == accumulate(Me(p).tool_response, result)
    IN  /\ Me(p).pc = "rtc_await_resolver"
        /\ IF Me(p).i < Len(calls)
           THEN /\ Set(p, [Me(p) EXCEPT !.tool_response = tr, !.i = @ + 1,
                     !.resolver_calls = Append(@, calls[Me(p).i + 1]),
                     !.resolver_results = Append(@, result)])
                /\ UNCHANGED <<history, appended>>
           ELSE /\ history' = add_message(history, ToolMessage(tr))
                /\ appended' = Append(appended, ToolMessage(tr))
                /\ Set(p, [Me(p) EXCEPT !.tool_response = tr, !.pc = "returned",
                              !.resolver_results = Append(@, result)])

RtcResolverRaise(p) ==
    /\ Me(p).pc = "rtc_await_resolver"
    /\ Set(p, [Me(p) EXCEPT !.pc = "raised", !.error = "resolver"])
    /\ UNCHANGED <<history, appended>>

\* ------------------------------------------- resolve_tool_calls_recursively
rec_branch_no_calls_appends(prompt_response, tool_reprompt_death, max_tokens) ==
    IF base_case(tool_reprompt_death, max_tokens) THEN "base"
    ELSE IF is_terminal_stop(prompt_response.stop_reason) THEN "terminal"
    ELSE IF prompt_response.stop_reason = "tool_calls"
         THEN IF ~truthy_list(prompt_response.tool_calls) THEN "terminal"
              ELSE "batch"
    ELSE "null"

\* which branch a step takes, in the order the code tests them
rec_branch(prompt_response, tool_reprompt_death, max_tokens) ==
    IF base_case(tool_reprompt_death, max_tokens) THEN "base"
    ELSE IF is_terminal_stop(prompt_response.stop_reason) THEN "terminal"
    ELSE IF prompt_response.stop_reason = "tool_calls"
         THEN IF ~truthy_list(prompt_response.tool_calls) THEN "no_calls"
              ELSE "batch"
    ELSE "null"

\* the application calls resolve_tool_calls_recursively on the pending reply
ResolveRecursively(p, depth, tokens) ==
    /\ Me(p).pc = "pending"
    /\ Set(p, [Me(p) EXCEPT !.pc = "rec_entry",
                  !.op = "resolve_tool_calls_recursively", !.error = "none",
                  !.tool_reprompt_death = depth, !.max_tokens = tokens,
                  !.depth0 = depth, !.caller_tokens = tokens, !.caller_usage = 0,
                  !.adapter_calls = 0, !.adapter_calls0 = 0,
                  !.resolver_calls = <<>>, !.resolver_results = <<>>,
                  !.tool_response = EmptyStr, !.h0 = history])
    /\ UNCHANGED <<history, appended>>

\* one step, from its entry to its return, its raise or its first await.
\* A run that began with a negative depth never meets depth == 0; the model
\* follows it for MaxDepth re-prompts.
RecStep(p) ==
    LET pr == Me(p).prompt_response
        b  == rec_branch(pr, Me(p).tool_reprompt_death, Me(p).max_tokens)
    IN  /\ Me(p).pc = "rec_entry"
        /\ b = "batch" => Me(p).adapter_calls < MaxDepth
        /\ IF b \in {"base", "terminal"}
           THEN /\ history' = add_message(history, pr.message)
                /\ appended' = Append(appended, pr.message)
                /\ Set(p, [Me(p) EXCEPT !.pc = "returned"])
           ELSE IF b = "no_calls"
           THEN /\ Set(p, [Me(p) EXCEPT !.pc = "returned"])
                /\ UNCHANGED <<history, appended>>
           ELSE IF b = "batch"
           THEN \* first iteration of the loop: await tool_resolver(tc)
                /\ Set(p, [Me(p) EXCEPT !.pc = "rec_await_resolver",
                              !.tool_response = EmptyStr,
                              !.resolver_calls = <<Val(pr.tool_calls)[1]>>])
                /\ UNCHANGED <<history, appended>>
           ELSE /\ Set(p, [Me(p) EXCEPT !.pc = "raised", !.error = "null_stop"])
                /\ UNCHANGED <<history, appended>>

\* the resolver returned: accumulate, append both messages, call the adapter.
\* All of it is inside the first iteration of the for loop.
RecResolverReturn(p, result) ==
    LET pr == Me(p).prompt_response
        tr == accumulate_rec(Me(p).tool_response, result)
        h2 == append_batch(history, pr.message, tr)
    IN  /\ Me(p).pc = "rec_await_resolver"
        /\ history' = h2
        /\ appended' = appended \o <<pr.message, ToolMessage(tr)>>
        /\ Set(p, [Me(p) EXCEPT !.pc = "rec_await_adapter", !.tool_response = tr,
                      !.resolver_results = Append(@, result),
                      !.send_system_message = Me(p).system_message,
                      !.send_tools = Me(p).tools,
                      !.adapter_calls = @ + 1, !.adapter_saw = h2])

RecResolverRaise(p) ==
    /\ Me(p).pc = "rec_await_resolver"
    /\ Set(p, [Me(p) EXCEPT !.pc = "raised", !.error = "resolver"])
    /\ UNCHANGED <<history, appended>>

\* the adapter returned: the new UnresolvedResponse recurses (still in that
\* first iteration), one level deeper and with the budget less this reply's usage
RecAdapterReturn(p, response) ==
    LET pr == Me(p).prompt_response
        ur == UnresolvedResponse(response, Me(p).send_tools,
                                 Me(p).send_system_message)
    IN  /\ Me(p).pc = "rec_await_adapter"
        /\ Set(p, [Me(p) EXCEPT !.pc = "rec_entry",
                      !.prompt_response = ur.prompt_response,
                      !.tools = ur.tools,
                      !.system_message = ur.system_message,
                      !.tool_reprompt_death = next_depth(@),
                      !.max_tokens = next_max_tokens(@, pr.token_usage),
                      !.caller_tokens = Me(p).max_tokens,
                      !.caller_usage = pr.token_usage,
                      !.adapter_calls0 = Me(p).adapter_calls,
                      !.resolver_calls = <<>>, !.resolver_results = <<>>,
                      !.h0 = history])
        /\ UNCHANGED <<history, appended>>

RecAdapterRaise(p) ==
    /\ Me(p).pc = "rec_await_adapter"
    /\ Set(p, [Me(p) EXCEPT !.pc = "raised", !.error = "adapter"])
    /\ UNCHANGED <<history, appended>>

\* ============================================ send_streaming_with_callback
response_token_usage == 0

\* the synchronous prefix: the stream is obtained, the locals are initialised
StreamStart(p, system_message, tools) ==
    /\ Me(p).pc = "idle"
    /\ Len(history) <= MaxHist
    /\ Set(p, [Me(p) EXCEPT !.pc = "stream_next",
                  !.op = "send_streaming_with_callback", !.error = "none",
                  !.send_system_message = system_message,
                  !.send_tools = tools,
                  !.response_content = EmptyStr,
                  !.response_stop_reason = "null",
                  !.response_tool_calls = <<>>,
                  !.stream = <<>>, !.callbacks = <<>>,
                  !.h0 = history, !.adapter_saw = history])
    /\ UNCHANGED <<history, appended>>

\* "async for delta in stream": the stream yields; "await callback(delta)"
StreamNext(p, delta) ==
    /\ Me(p).pc = "stream_next"
    /\ Len(Me(p).stream) < MaxDeltas
    /\ Set(p, [Me(p) EXCEPT !.pc = "stream_callback", !.delta = delta,
                  !.stream = Append(@, delta),
                  !.callbacks = Append(@, delta)])
    /\ UNCHANGED <<history, appended>>

\* the callback returned: the rest of the loop body
StreamCallback(p) ==
    LET d == Me(p).delta
    IN  /\ Me(p).pc = "stream_callback"
        /\ Set(p, [Me(p) EXCEPT !.pc = "stream_next",
                      !.response_content = fold_content(@, d),
                      !.response_tool_calls = fold_tool_calls(@, d),
                      !.response_stop_reason = fold_stop_reason(@, d)])
        /\ UNCHANGED <<history, appended>>

\* the stream is exhausted: the aggregate is wrapped into an UnresolvedResponse
StreamEnd(p) ==
    LET prompt_response ==
            PromptResponse(Message("model", Me(p).response_content),
                           Me(p).response_stop_reason,
                           response_token_usage,
                           Some(Me(p).response_tool_calls))
        ur == UnresolvedResponse(prompt_response, Me(p).send_tools,
                                 Me(p).send_system_message)
    IN  /\ Me(p).pc = "stream_next"
        /\ Set(p, [Me(p) EXCEPT !.pc = "pending",
                      !.prompt_response = ur.prompt_response,
                      !.tools = ur.tools,
                      !.system_message = ur.system_message])
        /\ UNCHANGED <<history, appended>>

\* ================================================================== behaviour
Next ==
    \E p \in {Main} :
        \/ \E m \in UserMessages : AddMessage(p, m)
        \/ \E s \in SystemMessages, t \in ToolCatalogs : Send(p, s, t)
        \/ \E r \in AdapterReplies : SendReturn(p, r)
        \/ SendRaise(p)
        \/ Continue(p)
        \/ ResolveWithout(p)
        \/ ResolveToolCalls(p)
        \/ \E x \in ResolverResults : RtcResolverReturn(p, x)
        \/ RtcResolverRaise(p)
        \/ \E d \in StartDepths, t \in StartBudgets : ResolveRecursively(p, d, t)
        \/ RecStep(p)
        \/ \E x \in ResolverResults : RecResolverReturn(p, x)
        \/ RecResolverRaise(p)
        \/ \E r \in AdapterReplies : RecAdapterReturn(p, r)
        \/ RecAdapterRaise(p)

Spec == Init /\ [][Next]_vars

\* the application streams a reply: the pending reply is the aggregate
NextStream ==
    \E p \in {Main} :
        \/ \E m \in UserMessages : AddMessage(p, m)
        \/ Continue(p)
        \/ \E s \in SystemMessages, t \in ToolCatalogs : StreamStart(p, s, t)
        \/ \E d \in StreamDeltas : StreamNext(p, d)
        \/ StreamCallback(p)
        \/ StreamEnd(p)

SpecStream == Init /\ [][NextStream]_vars

\* two resolutions run against the same builder, switching only where the
\* code awaits: each coroutine sends once and resolves its reply recursively
ConcSystemMessages == {<<"s">>}
ConcToolCatalogs   == {Some(<<"t">>)}
ConcReplies ==
    {PromptResponse(Message("model", c), s, 1, Some(<<1>>)) :
        c \in {<<"a">>, <<"b">>}, s \in {"stop", "tool_calls"}}
ConcResults == {None, Some(<<"r">>)}
ConcDepths  == {1}
ConcBudgets == {2}

NextConc ==
    \E p \in Procs :
        \/ \E s \in ConcSystemMessages, t \in ConcToolCatalogs : Send(p, s, t)
        \/ \E r \in ConcReplies : SendReturn(p, r)
        \/ \E d \in ConcDepths, t \in ConcBudgets : ResolveRecursively(p, d, t)
        \/ RecStep(p)
        \/ \E x \in ConcResults : RecResolverReturn(p, x)
        \/ \E r \in ConcReplies : RecAdapterReturn(p, r)

SpecConc == Init /\ [][NextConc]_vars

\* ================================================================ properties
Recursive(p) == proc[p].op = "resolve_tool_calls_recursively"
Streamed(p)  == proc[p].op = "send_streaming_with_callback"

\* the current step of p has ended: it returned or it raised
StepEnded(p) == proc[p].pc \in {"returned", "raised"}

\* the current step of p was entered by a recursive call, after a round trip
Recursed(p) == Recursive(p) /\ proc[p].adapter_calls0 > 0

IsPrefix(s, t) == Len(s) <= Len(t) /\ SubSeq(t, 1, Len(s)) = s

ToolCount(h) == Cardinality({i \in 1..Len(h) : h[i].role = "tool"})

\* ---------------------------------------------------------------------- C1
\* C1: a run of resolve_tool_calls_recursively started with
\* tool_reprompt_death = N >= 0 makes at most N provider adapter calls,
\* whatever the provider replies.
C1_AtMostNReprompts ==
    \A p \in Procs :
        (Recursive(p) /\ proc[p].depth0 >= 0)
            => proc[p].adapter_calls <= proc[p].depth0

\* a run that used all of its N = 2 re-prompts and returned
C1_Witness ==
    \E p \in Procs :
        /\ Recursive(p) /\ proc[p].pc = "returned"
        /\ proc[p].depth0 = 2 /\ proc[p].adapter_calls = 2

\* ---------------------------------------------------------------------- C2
\* C2 as stated: a step on a reply whose stop_reason is NULL ends with the
\* unexpected-null-stop-reason error and leaves history as it was, for every
\* depth and token budget.
C2_NullAlwaysRaises ==
    \A p \in Procs :
        (Recursive(p) /\ StepEnded(p)
         /\ proc[p].prompt_response.stop_reason = "null")
            => /\ proc[p].pc = "raised" /\ proc[p].error = "null_stop"
               /\ history = proc[p].h0

\* C2 amended: a step on a reply whose stop_reason is NULL, entered with
\* depth != 0 and budget > 0, ends with the unexpected-null-stop-reason error
\* and history as it was; entered with depth == 0 or budget <= 0 it returns
\* with the reply's message appended and raises nothing.
C2_NullRaisesPastBaseCase ==
    \A p \in Procs :
        (Recursive(p) /\ StepEnded(p)
         /\ proc[p].prompt_response.stop_reason = "null")
            => IF proc[p].tool_reprompt_death # 0 /\ proc[p].max_tokens > 0
               THEN /\ proc[p].pc = "raised" /\ proc[p].error = "null_stop"
                    /\ history = proc[p].h0
               ELSE /\ proc[p].pc = "returned" /\ proc[p].error = "none"
                    /\ history = Append(proc[p].h0,
                                        proc[p].prompt_response.message)

\* a NULL reply to a re-prompt raised, one level down
C2_Witness ==
    \E p \in Procs :
        /\ Recursed(p) /\ proc[p].pc = "raised" /\ proc[p].error = "null_stop"
        /\ proc[p].tool_reprompt_death = 1 /\ proc[p].max_tokens > 0
        /\ history = proc[p].h0 /\ Len(history) >= 2

\* ---------------------------------------------------------------------- C3
\* C3: a step on a reply whose stop_reason is STOP, LENGTH or CONTENT_FILTER
\* returns the history with exactly the provider's message appended and calls
\* neither the adapter nor the resolver, whatever tool_calls, depth and budget.
C3_TerminalStopAppendsOnce ==
    \A p \in Procs :
        (Recursive(p)
         /\ proc[p].prompt_response.stop_reason
                \in {"stop", "length", "content_filter"})
            => /\ proc[p].pc \in {"rec_entry", "returned"}
               /\ proc[p].adapter_calls = proc[p].adapter_calls0
               /\ proc[p].resolver_calls = <<>>
               /\ proc[p].pc = "rec_entry" => history = proc[p].h0
               /\ proc[p].pc = "returned"
                    => history = Append(proc[p].h0,
                                        proc[p].prompt_response.message)

\* a LENGTH reply that carries tool calls, met with depth and budget left
C3_Witness ==
    \E p \in Procs :
        /\ Recursed(p) /\ proc[p].pc = "returned"
        /\ proc[p].prompt_response.stop_reason = "length"
        /\ truthy_list(proc[p].prompt_response.tool_calls)
        /\ proc[p].tool_reprompt_death > 0 /\ proc[p].max_tokens > 0
        /\ Len(history) = Len(proc[p].h0) + 1

\* ---------------------------------------------------------------------- C4
\* C4 as stated: after a round trip the budget of the next step is strictly
\* less than the caller's, by exactly the token_usage of the caller's reply.
C4_BudgetStrictlyLess ==
    \A p \in Procs :
        Recursed(p)
            => /\ proc[p].max_tokens < proc[p].caller_tokens
               /\ proc[p].caller_tokens - proc[p].max_tokens
                      = proc[p].caller_usage

\* C4 amended: after a round trip the budget of the next step is the caller's
\* budget minus the token_usage of the caller's reply; it is strictly less
\* exactly when that token_usage is positive, and equal when it is 0.
C4_BudgetLessByUsage ==
    \A p \in Procs :
        Recursed(p)
            => /\ proc[p].max_tokens
                      = proc[p].caller_tokens - proc[p].caller_usage
               /\ (proc[p].max_tokens < proc[p].caller_tokens)
                      <=> (proc[p].caller_usage > 0)

\* two round trips, the second from a reply that used one token
C4_Witness ==
    \E p \in Procs :
        /\ Recursed(p) /\ proc[p].adapter_calls0 = 2
        /\ proc[p].caller_usage = 1
        /\ proc[p].caller_tokens = 2 /\ proc[p].max_tokens = 1

\* ---------------------------------------------------------------------- C5
\* C5: history is append-only: every step leaves the earlier history as a
\* prefix of the later one, and the history is the initial (empty) history
\* followed by the messages passed to add_message, in call order.
C5_AppendOnly ==
    [][IsPrefix(history, history') /\ history' = appended']_vars

\* a user message, then a recursive resolution that appended two batches
C5_Witness ==
    \E p \in Procs :
        /\ Recursive(p) /\ proc[p].pc = "returned"
        /\ Len(history) = 6 /\ history[1].role = "user"
        /\ history[2].role = "model" /\ history[3].role = "tool"

\* ---------------------------------------------------------------------- C6
\* C6: a reply with stop_reason TOOL_CALLS and k >= 1 tool calls, handled
\* with depth > 0 and budget > 0, has exactly one TOOL message appended and
\* exactly one re-prompt sent, for every k: nothing on entry, both when the
\* resolver has returned, nothing more when the adapter returns.  (A
\* collaborator that raises ends the step there, appending nothing more.)
C6_OneToolMessageOneReprompt ==
    [][\A p \in Procs :
        LET s == proc[p]
            t == proc'[p]
            calls == Val(s.prompt_response.tool_calls)
        IN  (/\ Recursive(p)
             /\ s.prompt_response.stop_reason = "tool_calls"
             /\ truthy_list(s.prompt_response.tool_calls)
             /\ s.tool_reprompt_death > 0 /\ s.max_tokens > 0
             /\ t # s)
            => \/ /\ s.pc = "rec_entry" /\ t.pc = "rec_await_resolver"
                  /\ history' = history
                  /\ t.adapter_calls = s.adapter_calls
               \/ /\ s.pc = "rec_await_resolver" /\ t.pc = "rec_await_adapter"
                  /\ Len(history') = Len(history) + 2
                  /\ ToolCount(history') = ToolCount(history) + 1
                  /\ t.adapter_calls = s.adapter_calls + 1
               \/ /\ s.pc = "rec_await_adapter" /\ t.pc = "rec_entry"
                  /\ history' = history
                  /\ t.adapter_calls = s.adapter_calls
               \/ /\ t.pc = "raised" /\ t.error \in {"resolver", "adapter"}
                  /\ history' = history
                  /\ t.adapter_calls = s.adapter_calls
    ]_vars

\* a batch of k = 2 calls: one TOOL message appended, one re-prompt in flight
C6_Witness ==
    \E p \in Procs :
        /\ Recursive(p) /\ proc[p].pc = "rec_await_adapter"
        /\ proc[p].prompt_response.stop_reason = "tool_calls"
        /\ Len(Val(proc[p].prompt_response.tool_calls)) = 2
        /\ proc[p].tool_reprompt_death > 0 /\ proc[p].max_tokens > 0
        /\ ToolCount(history) = ToolCount(proc[p].h0) + 1
        /\ proc[p].adapter_calls = proc[p].adapter_calls0 + 1

\* ---------------------------------------------------------------------- C7
\* C7: whenever the adapter is called for a re-prompt, the history it
\* receives is the history of the step's entry, then the provider's message,
\* then the TOOL message that answers it.
C7_AppendsBeforeReprompt ==
    \A p \in Procs :
        (Recursive(p) /\ proc[p].adapter_calls > proc[p].adapter_calls0)
            => LET seen == proc[p].adapter_saw
                   n == Len(seen)
               IN  /\ n = Len(proc[p].h0) + 2
                   /\ SubSeq(seen, 1, n - 2) = proc[p].h0
                   /\ seen[n - 1] = proc[p].prompt_response.message
                   /\ seen[n] = ToolMessage(proc[p].tool_response)

\* the second re-prompt of a run is in flight
C7_Witness ==
    \E p \in Procs :
        /\ Recursive(p) /\ proc[p].pc = "rec_await_adapter"
        /\ proc[p].adapter_calls = 2
        /\ proc[p].adapter_saw = history /\ Len(history) >= 4

\* ---------------------------------------------------------------------- C8
Min(S) == CHOOSE i \in S : \A j \in S : i <= j
Max(S) == CHOOSE i \in S : \A j \in S : i >= j

\* the positions of a stream whose delta carries a stop_reason
Carriers(st) == {i \in 1..Len(st) : st[i].stop_reason # NoStop}

FirstStop(st) ==
    IF Carriers(st) = {} THEN "null" ELSE st[Min(Carriers(st))].stop_reason

\* the same, when a delta that carries the NULL member counts as carrying none
NonNullCarriers(st) == {i \in Carriers(st) : st[i].stop_reason # "null"}

FirstNonNullStop(st) ==
    IF NonNullCarriers(st) = {} THEN "null"
    ELSE st[Min(NonNullCarriers(st))].stop_reason

LastStop(st) ==
    IF Carriers(st) = {} THEN "null" ELSE st[Max(Carriers(st))].stop_reason

\* C8 as stated: the aggregate's stop_reason is the first non-null
\* stop_reason a delta of the stream carries, and NULL when none carries one
\* ("non-null" read as present, or as present and not the NULL member).
C8_FirstStopReason ==
    \A p \in Procs :
        (Streamed(p) /\ proc[p].pc = "pending")
            => proc[p].prompt_response.stop_reason
                   \in {FirstStop(proc[p].stream),
                        FirstNonNullStop(proc[p].stream)}

\* C8 amended: the aggregate's stop_reason is the last stop_reason a delta of
\* the stream carries (a later one replaces an earlier one, the NULL member
\* included), and NULL when none carries one.
C8_LastStopReason ==
    \A p \in Procs :
        (Streamed(p) /\ proc[p].pc = "pending")
            => proc[p].prompt_response.stop_reason = LastStop(proc[p].stream)

\* a stream whose two deltas carry different stop reasons
C8_Witness ==
    \E p \in Procs :
        /\ Streamed(p) /\ proc[p].pc = "pending"
        /\ Len(proc[p].stream) = 2
        /\ proc[p].stream[1].stop_reason = "stop"
        /\ proc[p].stream[2].stop_reason = "length"
        /\ proc[p].prompt_response.stop_reason = "length"

\* ---------------------------------------------------------------------- C9
RECURSIVE Concat(_)
Concat(st) ==
    IF st = <<>> THEN EmptyStr ELSE Head(st).content \o Concat(Tail(st))

RECURSIVE PresentToolCalls(_)
PresentToolCalls(st) ==
    IF st = <<>> THEN <<>>
    ELSE (IF Head(st).tool_call = None THEN <<>>
          ELSE <<Val(Head(st).tool_call)>>) \o PresentToolCalls(Tail(st))

\* C9: for a stream d1..dn the callback is invoked n times, once per delta in
\* stream order; the pending reply has a MODEL text message whose content is
\* d1.content .. dn.content concatenated, the present tool_call values in
\* stream order as tool_calls, and token_usage 0; history is not touched.
C9_StreamAggregate ==
    \A p \in Procs :
        Streamed(p)
            => /\ history = proc[p].h0
               /\ proc[p].pc \in {"stream_next", "pending"}
                    => proc[p].callbacks = proc[p].stream
               /\ proc[p].pc = "pending"
                    => LET pr == proc[p].prompt_response
                       IN  /\ pr.message.role = "model"
                           /\ pr.message.content_type = "text"
                           /\ pr.message.content = Concat(proc[p].stream)
                           /\ pr.tool_calls
                                  = Some(PresentToolCalls(proc[p].stream))
                           /\ pr.token_usage = 0

\* two deltas with different contents and tool calls were aggregated
C9_Witness ==
    \E p \in Procs :
        /\ Streamed(p) /\ proc[p].pc = "pending"
        /\ Len(proc[p].callbacks) = 2
        /\ proc[p].prompt_response.message.content = <<"a", "b">>
        /\ proc[p].prompt_response.tool_calls = Some(<<2, 1>>)
        /\ Len(history) = 1

\* --------------------------------------------------------------------- C10
\* C10 as stated: when the resolver or the adapter raises during a step, the
\* history is what it was when the step began.
C10_FailureLeavesStepHistory ==
    \A p \in Procs :
        (Recursive(p) /\ proc[p].pc = "raised"
         /\ proc[p].error \in {"resolver", "adapter"})
            => history = proc[p].h0

\* C10 amended: the error propagates and the history is what it was when the
\* failing call was made: when the resolver raises, the history of the step's
\* entry; when the adapter raises, that history followed by the provider's
\* message and the TOOL message of the batch, which the adapter was sent.
C10_FailureLeavesCallHistory ==
    \A p \in Procs :
        (Recursive(p) /\ proc[p].pc = "raised")
            => /\ proc[p].error \in {"resolver", "adapter", "null_stop"}
               /\ proc[p].error = "resolver" => history = proc[p].h0
               /\ proc[p].error = "adapter"
                    => /\ history = proc[p].h0
                            \o <<proc[p].prompt_response.message,
                                 ToolMessage(proc[p].tool_response)>>
                       /\ history = proc[p].adapter_saw

\* the adapter raised on the re-prompt of a batch
C10_Witness ==
    \E p \in Procs :
        /\ Recursive(p) /\ proc[p].pc = "raised"
        /\ proc[p].error = "adapter"
        /\ Len(history) = Len(proc[p].h0) + 2

\* --------------------------------------------------------------------- C11
\* C11: a step entered with depth == 0 or token budget <= 0 ends without
\* error, with exactly the provider's message appended to the history so far,
\* and calls neither the adapter nor the resolver, whatever the reply's stop
\* reason and tool calls.
C11_BaseCaseReturns ==
    \A p \in Procs :
        (Recursive(p)
         /\ (proc[p].tool_reprompt_death = 0 \/ proc[p].max_tokens <= 0))
            => /\ proc[p].pc \in {"rec_entry", "returned"}
               /\ proc[p].error = "none"
               /\ proc[p].adapter_calls = proc[p].adapter_calls0
               /\ proc[p].resolver_calls = <<>>
               /\ proc[p].pc = "rec_entry" => history = proc[p].h0
               /\ proc[p].pc = "returned"
                    => history = Append(proc[p].h0,
                                        proc[p].prompt_response.message)

\* a NULL reply to a re-prompt, met with the budget used up, was appended
C11_Witness ==
    \E p \in Procs :
        /\ Recursed(p) /\ proc[p].pc = "returned"
        /\ proc[p].prompt_response.stop_reason = "null"
        /\ proc[p].tool_reprompt_death > 0 /\ proc[p].max_tokens = 0
        /\ Len(history) = Len(proc[p].h0) + 1

\* --------------------------------------------------------------------- C12
\* C12: when the re-prompt of a batch of k tool calls is sent, the resolver
\* has been invoked once for each of the k calls, in list order, and the one
\* TOOL message of the batch holds the results of all k calls.
C12_AllCallsResolved ==
    \A p \in Procs :
        (Recursive(p) /\ proc[p].adapter_calls > proc[p].adapter_calls0)
            => /\ proc[p].resolver_calls
                      = Val(proc[p].prompt_response.tool_calls)
               /\ Len(proc[p].resolver_results)
                      = Len(Val(proc[p].prompt_response.tool_calls))
               /\ history[Len(proc[p].h0) + 2].role = "tool"

\* --------------------------------------------------------------------- C13
SinglePass(p) == proc[p].op = "resolve_tool_calls"

\* C13: resolve_tool_calls completes without error for every pending reply
\* (any stop reason; tool_calls absent, empty or not) and appends exactly two
\* messages: the provider's message, then one TOOL message.  (A run whose
\* resolver raised is left aside.)
C13_AlwaysTwoMessages ==
    \A p \in Procs :
        (SinglePass(p) /\ StepEnded(p) /\ proc[p].error # "resolver")
            => /\ proc[p].pc = "returned" /\ proc[p].error = "none"
               /\ Len(history) = Len(proc[p].h0) + 2
               /\ SubSeq(history, 1, Len(proc[p].h0)) = proc[p].h0
               /\ history[Len(proc[p].h0) + 1]
                      = proc[p].prompt_response.message
               /\ history[Len(proc[p].h0) + 2].role = "tool"

\* --------------------------------------------------------------------- C14
\* C14: resolve_without appends exactly one message, the provider's message,
\* to the end of history and changes nothing else.  The resulting history is
\* this function of the history before and of the reply's message, so equal
\* histories and equivalent replies give equal resulting histories.
C14_ResolveWithoutAppendsOne ==
    [][\A p \in Procs :
          (proc[p].pc = "pending" /\ proc'[p].op = "resolve_without")
              => /\ history' = Append(history, proc[p].prompt_response.message)
                 /\ appended' = Append(appended, proc[p].prompt_response.message)
                 /\ proc'[p].pc = "returned"
                 /\ proc'[p].prompt_response = proc[p].prompt_response
                 /\ \A q \in Procs \ {p} : proc'[q] = proc[q]]_vars

\* resolve_without returned on a history that was not empty
C14_Witness ==
    \E p \in Procs :
        /\ proc[p].op = "resolve_without" /\ proc[p].pc = "returned"
        /\ Len(proc[p].h0) = 1
        /\ history = Append(proc[p].h0, proc[p].prompt_response.message)

\* --------------------------------------------------------------------- C16
\* the current step of p has depth > 0, budget > 0 and a TOOL_CALLS reply
\* whose tool_calls is empty or absent
NoCallsStep(p) ==
    /\ Recursive(p)
    /\ proc[p].tool_reprompt_death > 0 /\ proc[p].max_tokens > 0
    /\ proc[p].prompt_response.stop_reason = "tool_calls"
    /\ proc[p].prompt_response.tool_calls \in {None, Some(<<>>)}

\* C16: such a step returns the history unchanged (the provider's message is
\* not appended) and makes no provider call and no tool resolver call.
C16_NoCallsLeavesHistory ==
    \A p \in Procs :
        NoCallsStep(p)
            => /\ proc[p].pc \in {"rec_entry", "returned"}
               /\ proc[p].error = "none"
               /\ history = proc[p].h0
               /\ proc[p].adapter_calls = proc[p].adapter_calls0
               /\ proc[p].resolver_calls = <<>>

\* such a step returned, reached through a re-prompt, with an empty list
C16_Witness ==
    \E p \in Procs :
        /\ NoCallsStep(p) /\ Recursed(p) /\ proc[p].pc = "returned"
        /\ proc[p].prompt_response.tool_calls = Some(<<>>)

\* --------------------------------------------------------------------- C17
\* the tool calls a reply holds, none when the list is absent
CallsOf(prompt_response) ==
    IF prompt_response.tool_calls = None THEN <<>>
    ELSE Val(prompt_response.tool_calls)

\* C17: resolve_tool_calls invokes the tool resolver, once per tool call and
\* in list order, exactly when the reply's stop_reason is not TOOL_CALLS.
\* When the stop_reason is TOOL_CALLS the resolver is never invoked and the
\* appended TOOL message has empty content, whatever tool_calls holds.
C17_ResolverIffNotToolCalls ==
    \A p \in Procs :
        SinglePass(p)
            => LET pr == proc[p].prompt_response
               IN  /\ IsPrefix(proc[p].resolver_calls, CallsOf(pr))
                   /\ pr.stop_reason = "tool_calls"
                        => /\ proc[p].resolver_calls = <<>>
                           /\ proc[p].pc = "returned"
                           /\ history = proc[p].h0
                                  \o <<pr.message, ToolMessage(EmptyStr)>>
                   /\ (pr.stop_reason # "tool_calls" /\ proc[p].pc = "returned")
                        => proc[p].resolver_calls = CallsOf(pr)

\* a TOOL_CALLS reply asking for two calls went through resolve_tool_calls
C17_Witness ==
    \E p \in Procs :
        /\ SinglePass(p) /\ proc[p].pc = "returned"
        /\ proc[p].prompt_response.stop_reason = "tool_calls"
        /\ proc[p].prompt_response.tool_calls = Some(<<1, 2>>)
        /\ history[Len(history)] = ToolMessage(EmptyStr)

\* --------------------------------------------------------------------- C18
\* the text a batch of resolver results amounts to when an empty or absent
\* result contributes nothing and any other result r contributes r and a newline
RECURSIVE Lines(_)
Lines(results) ==
    IF results = <<>> THEN EmptyStr
    ELSE (IF Head(results) \in {None, Some(EmptyStr)} THEN EmptyStr
          ELSE Val(Head(results)) \o <<NL>>) \o Lines(Tail(results))

\* C18: in both resolve_tool_calls and resolve_tool_calls_recursively, an
\* empty or absent resolver result contributes nothing to the TOOL message
\* content and a non-empty result r contributes exactly r and one newline; a
\* batch whose results are all empty or absent yields an empty TOOL message.
C18_EmptyResultContributesNothing ==
    \A p \in Procs :
        /\ (SinglePass(p) /\ proc[p].pc = "returned")
              => history[Len(proc[p].h0) + 2]
                     = ToolMessage(Lines(proc[p].resolver_results))
        /\ (Recursive(p) /\ proc[p].pc = "rec_await_adapter")
              => history[Len(proc[p].h0) + 2]
                     = ToolMessage(Lines(proc[p].resolver_results))

\* --------------------------------------------------------------------- C19
ResolveOps ==
    {"resolve_without", "resolve_tool_calls", "resolve_tool_calls_recursively"}

\* C19: send leaves the history unchanged.  It calls the adapter once, with
\* the whole current history, and returns a pending reply that holds the
\* adapter's response, the same history, the tools and the system message;
\* the reply's message enters history only when a resolve operation is
\* applied afterwards.
C19_SendLeavesHistory ==
    [][\A p \in Procs :
          /\ (proc[p].pc = "idle" /\ proc'[p].op = "send")
                => /\ history' = history /\ appended' = appended
                   /\ proc'[p].pc = "send_await_adapter"
                   /\ proc'[p].adapter_calls = 1
                   /\ proc'[p].adapter_saw = history
          /\ (proc[p].op = "send" /\ proc[p].pc = "send_await_adapter"
              /\ proc'[p].pc = "pending")
                => /\ history' = history /\ appended' = appended
                   /\ history' = proc[p].h0
                   /\ proc'[p].adapter_calls = 1
                   /\ proc'[p].prompt_response \in AdapterReplies
                   /\ proc'[p].tools = proc[p].send_tools
                   /\ proc'[p].system_message = proc[p].send_system_message
          /\ (proc[p].op = "send" /\ proc[p].pc = "pending"
              /\ history' # history)
                => /\ proc'[p].op \in ResolveOps
                   /\ IsPrefix(history, history')
                   /\ history'[Len(history) + 1]
                          = proc[p].prompt_response.message]_vars

\* send returned a pending reply over a non-empty history, with tools
C19_Witness ==
    \E p \in Procs :
        /\ proc[p].op = "send" /\ proc[p].pc = "pending"
        /\ proc[p].tools # None /\ proc[p].tools = proc[p].send_tools
        /\ Len(history) = 1 /\ history = proc[p].h0
        /\ proc[p].adapter_saw = history

BatchAppended(p) == Recursive(p) /\ proc[p].pc = "rec_await_adapter"

\* C20: the provider message and the TOOL message of a batch are appended
\* with no suspension point between the two appends: when two resolutions run
\* interleaved against the same history, switching only at adapter and
\* resolver calls, the two messages of a batch are always adjacent in
\* history, with no other resolution's message between them.
C20_BatchAdjacent ==
    /\ \A p \in Procs :
           BatchAppended(p)
               => LET n == Len(proc[p].adapter_saw)
                  IN  /\ n >= 2 /\ IsPrefix(proc[p].adapter_saw, history)
                      /\ history[n - 1] = proc[p].prompt_response.message
                      /\ history[n] = ToolMessage(proc[p].tool_response)
    /\ \A i \in 1..Len(history) :
           history[i].role = "tool"
               => i > 1 /\ history[i - 1].role = "model"

\* q began its step on the empty history, p appended its batch while q
\* awaited its resolver, then q appended a batch of other messages behind it
C20_Witness ==
    \E p, q \in Procs :
        /\ p # q /\ BatchAppended(p) /\ BatchAppended(q)
        /\ proc[q].h0 = <<>>
        /\ Len(proc[p].adapter_saw) = 2 /\ Len(proc[q].adapter_saw) = 4
        /\ history[1] # history[3] /\ history[2] # history[4]

====
